---- MODULE Spec2Model ----
(***************************************************************************)
(* Model of the clients data-access layer of backend-gateway-service:      *)
(* ClientsRepository (Prisma Client methods and raw SQL methods) and       *)
(* ClientsService on top of it, against one relational table `clients`.    *)
(* and of PrismaService, the client with its lifecycle hooks and health     *)
(* probe.                                                                  *)
(*                                                                         *)
(* The database and the Prisma client are the environment.  Each awaited   *)
(* query is one atomic step on `store`.  Prisma's documented behaviour is  *)
(* modelled where the repository relies on it:                             *)
(*   - update/delete of a missing row throw a known request error P2025;   *)
(*   - a nullable Json column takes a JSON value, Prisma.DbNull or         *)
(*     Prisma.JsonNull as input.  A plain JavaScript null is outside that  *)
(*     input type; what the client does with it depends on the installed   *)
(*     Prisma version, which the repository does not pin in its sources:   *)
(*     either the call is rejected with a PrismaClientValidationError      *)
(*     (which carries no `code`), or the value is written as the JSON      *)
(*     value null (not SQL NULL).  `prismaNull` holds the build's choice;  *)
(*   - a JSON null and an SQL NULL both read back as JavaScript null;      *)
(*   - update with no field to write issues no UPDATE (and so does not     *)
(*     refresh @updatedAt) and returns the row as read.                    *)
(***************************************************************************)
EXTENDS Integers, Sequences, FiniteSets, TLC

VARIABLES store, used, now, last, procs, prismaNull, tx, seen, db, app, deploy, wait

vars == <<store, used, now, last, procs, prismaNull, tx, seen, db, app, deploy, wait>>

-----------------------------------------------------------------------------
(* Bounds and input domains *)

MaxTime == 1

\* The UUIDs the database can hand out / a caller can ask for.
Ids == {"u1", "u2"}

Times == 0..MaxTime

-----------------------------------------------------------------------------
(* JavaScript values, tagged by their type *)

Undefined == [t |-> "undefined"]
Null == [t |-> "null"]
Str(s) == [t |-> "string", v |-> s]
\* A JSON object is the set of its <<key, value>> members.
Obj(o) == [t |-> "object", v |-> o]

\* The jsonb value 'null', as opposed to SQL NULL (Null).
JsonNull == [t |-> "jsonnull"]

\* JavaScript truthiness: undefined, null and "" are falsy, every object is truthy.
Truthy(x) == x.t = "object" \/ (x.t = "string" /\ x.v # "")

RECURSIVE MembersToText(_)
MembersToText(o) ==
    IF o = {} THEN <<>>
    ELSE LET m == CHOOSE x \in o : TRUE
         IN <<m>> \o MembersToText(o \ {m})

\* JSON.stringify of an object: its members written out one after the other.
JSON_stringify(x) == [t |-> "text", v |-> MembersToText(x.v)]

\* The SQL cast $n::jsonb: NULL stays NULL, a JSON text is parsed into a document.
CastJsonb(p) ==
    IF p.t = "null" THEN Null
    ELSE Obj({p.v[i] : i \in DOMAIN p.v})

-----------------------------------------------------------------------------
(* Results of a call *)

Ret(r) == [t |-> "record", row |-> r]
RetNull == [t |-> "null"]
RetBool(b) == [t |-> "boolean", b |-> b]
RetList(q) == [t |-> "list", rows |-> q]
RetInt(n) == [t |-> "int", n |-> n]
RetVoid == [t |-> "void"]
Throw(e) == [t |-> "throw", err |-> e]

\* Prisma: "An operation failed because it depends on one or more records that
\* were required but not found."
RecordNotFound == [name |-> "PrismaClientKnownRequestError", code |-> "P2025", id |-> "-"]
\* Prisma: the arguments of the call do not fit the schema's input types.
ValidationError == [name |-> "PrismaClientValidationError", code |-> "undefined", id |-> "-"]
\* Prisma: a raw query failed in the database (here: NOT NULL violation 23502).
RawQueryFailed == [name |-> "PrismaClientKnownRequestError", code |-> "P2010", id |-> "-"]
\* NestJS NotFoundException(`Client with ID ${id} not found`).
NotFoundException(id) == [name |-> "NotFoundException", code |-> "undefined", id |-> id]

\* Persistence faults of the environment: the database cannot be reached
\* (P1001), a constraint is violated (P2002), the engine fails with an error
\* that carries no code.
NoFault == [name |-> "none", code |-> "undefined", id |-> "-"]
Faults == {[name |-> "PrismaClientInitializationError", code |-> "P1001", id |-> "-"],
           [name |-> "PrismaClientKnownRequestError", code |-> "P2002", id |-> "-"],
           [name |-> "PrismaClientUnknownRequestError", code |-> "undefined", id |-> "-"]}

Out(s, r) == [store |-> s, res |-> r]

-----------------------------------------------------------------------------
(* The clients table *)

StorePut(s, r) == [i \in DOMAIN s \cup {r.id} |-> IF i = r.id THEN r ELSE s[i]]
StoreRemove(s, id) == [i \in DOMAIN s \ {id} |-> s[i]]

\* A freshly inserted row: id and both timestamps come from the column defaults.
InsertRow(id, name, metadata, t) ==
    [id |-> id, name |-> name, metadata |-> metadata, created_at |-> t, updated_at |-> t]

\* A row as a query hands it to JavaScript: jsonb 'null' and SQL NULL are both null.
AsClient(r) == [r EXCEPT !.metadata = IF @.t = "jsonnull" THEN Null ELSE @]

Pos(q, x) == CHOOSE i \in DOMAIN q : q[i] = x

Perms(S) == {q \in [1..Cardinality(S) -> S] : \A x \in S : \E i \in DOMAIN q : q[i] = x}

\* ORDER BY created_at DESC; rows with equal created_at come in the table's
\* physical order `ord`.
OrderByCreatedDesc(s, ord) ==
    LET q == CHOOSE p \in Perms(DOMAIN s) :
                \A i, j \in DOMAIN p : i < j =>
                    \/ s[p[i]].created_at > s[p[j]].created_at
                    \/ /\ s[p[i]].created_at = s[p[j]].created_at
                       /\ Pos(ord, p[i]) < Pos(ord, p[j])
    IN [i \in DOMAIN q |-> AsClient(s[q[i]])]

-----------------------------------------------------------------------------
(* Prisma Client calls on the clients model *)

\* prisma.clients.findUnique({ where: { id } })
PrismaFindUnique(s, id) ==
    IF id \in DOMAIN s THEN Out(s, Ret(AsClient(s[id]))) ELSE Out(s, RetNull)

\* Whether the client accepts `data` for the columns name (String) and
\* metadata (Json?).  `nameRequired`: create needs a name, update does not.
PrismaValid(data, nameRequired) ==
    /\ data.name.t = "string" \/ (~nameRequired /\ data.name.t = "undefined")
    /\ data.metadata.t = "null" => prismaNull = "jsonNull"

\* The column value a Json? input is written as.
PrismaJson(m) == IF m.t = "null" THEN JsonNull ELSE m

\* prisma.clients.create({ data }): name is a required String, metadata a Json?.
PrismaCreate(s, data, newId, t) ==
    IF ~PrismaValid(data, TRUE)
    THEN Out(s, Throw(ValidationError))
    ELSE LET r == InsertRow(newId, data.name,
                            IF data.metadata.t = "undefined" THEN Null
                            ELSE PrismaJson(data.metadata), t)
         IN Out(StorePut(s, r), Ret(AsClient(r)))

\* Mutant: an upsert, the row is created when it is not there.
PrismaUpdate_Upserts(s, id, data, t) ==
    IF ~PrismaValid(data, FALSE)
    THEN Out(s, Throw(ValidationError))
    ELSE LET old == IF id \in DOMAIN s THEN s[id] ELSE InsertRow(id, Str(""), Null, t)
             r == [old EXCEPT
                     !.name = IF data.name.t = "undefined" THEN @ ELSE data.name,
                     !.metadata = IF data.metadata.t = "undefined" THEN @
                                  ELSE PrismaJson(data.metadata),
                     !.updated_at = t]
         IN Out(StorePut(s, r), Ret(AsClient(r)))

\* prisma.clients.update({ where: { id }, data }): a key whose value is
\* undefined is no key at all.
PrismaUpdate(s, id, data, t) ==
    IF ~PrismaValid(data, FALSE)
    THEN Out(s, Throw(ValidationError))
    ELSE IF id \notin DOMAIN s
    THEN Out(s, Throw(RecordNotFound))
    ELSE IF data.name.t = "undefined" /\ data.metadata.t = "undefined"
    THEN Out(s, Ret(AsClient(s[id])))
    ELSE LET r == [s[id] EXCEPT
                     !.name = IF data.name.t = "undefined" THEN @ ELSE data.name,
                     !.metadata = IF data.metadata.t = "undefined" THEN @
                                  ELSE PrismaJson(data.metadata),
                     !.updated_at = t]
         IN Out(StorePut(s, r), Ret(AsClient(r)))

\* prisma.clients.delete({ where: { id } })
PrismaDelete(s, id) ==
    IF id \in DOMAIN s THEN Out(StoreRemove(s, id), Ret(AsClient(s[id])))
    ELSE Out(s, Throw(RecordNotFound))

\* prisma.clients.count({ where })
PrismaCount(s, ids) == Cardinality(DOMAIN s \cap ids)

-----------------------------------------------------------------------------
(* Raw SQL statements, with their bound parameters *)

\* SELECT ... FROM clients WHERE id = $1
SqlSelectById(s, id) == IF id \in DOMAIN s THEN <<AsClient(s[id])>> ELSE <<>>

\* INSERT INTO clients (name, metadata) VALUES ($1, $2::jsonb) RETURNING ...
SqlInsert(s, name, meta, newId, t) ==
    IF name.t # "string"
    THEN Out(s, Throw(RawQueryFailed))
    ELSE LET r == InsertRow(newId, name, CastJsonb(meta), t)
         IN Out(StorePut(s, r), RetList(<<AsClient(r)>>))

\* The value the assignment list `sets` gives column `col`, or `old`.
Assigned(sets, values, col, old) ==
    IF \E i \in DOMAIN sets : sets[i].col = col
    THEN LET a == sets[CHOOSE i \in DOMAIN sets :
                         /\ sets[i].col = col
                         /\ \A j \in DOMAIN sets : sets[j].col = col => j <= i]
         IN IF a.cast = "jsonb" THEN CastJsonb(values[a.ph]) ELSE values[a.ph]
    ELSE old

\* Mutant: SET <sets> alone, without ", updated_at = NOW()".
SqlUpdate_NoRefresh(s, sets, wherePh, values, t) ==
    LET id == values[wherePh].v
    IN IF id \notin DOMAIN s
       THEN Out(s, RetList(<<>>))
       ELSE LET r == [s[id] EXCEPT
                        !.name = Assigned(sets, values, "name", @),
                        !.metadata = Assigned(sets, values, "metadata", @)]
            IN IF r.name.t # "string"
               THEN Out(s, Throw(RawQueryFailed))
               ELSE Out(StorePut(s, r), RetList(<<AsClient(r)>>))

\* Mutant: the statement refreshes created_at in place of updated_at.
SqlUpdate_RefreshesCreatedAt(s, sets, wherePh, values, t) ==
    LET id == values[wherePh].v
    IN IF id \notin DOMAIN s
       THEN Out(s, RetList(<<>>))
       ELSE LET r == [s[id] EXCEPT
                        !.name = Assigned(sets, values, "name", @),
                        !.metadata = Assigned(sets, values, "metadata", @),
                        !.created_at = t]
            IN IF r.name.t # "string"
               THEN Out(s, Throw(RawQueryFailed))
               ELSE Out(StorePut(s, r), RetList(<<AsClient(r)>>))

\* UPDATE clients SET <sets>, updated_at = NOW() WHERE id = $wherePh RETURNING ...
SqlUpdate(s, sets, wherePh, values, t) ==
    LET id == values[wherePh].v
    IN IF id \notin DOMAIN s
       THEN Out(s, RetList(<<>>))
       ELSE LET r == [s[id] EXCEPT
                        !.name = Assigned(sets, values, "name", @),
                        !.metadata = Assigned(sets, values, "metadata", @),
                        !.updated_at = t]
            IN IF r.name.t # "string"
               THEN Out(s, Throw(RawQueryFailed))
               ELSE Out(StorePut(s, r), RetList(<<AsClient(r)>>))

\* DELETE FROM clients WHERE id = $1: the number of rows affected.
SqlDelete(s, id) ==
    IF id \in DOMAIN s THEN [store |-> StoreRemove(s, id), count |-> 1]
    ELSE [store |-> s, count |-> 0]

-----------------------------------------------------------------------------
(* ClientsRepository, Prisma Client methods.  Each returns [store, res]. *)

\* Mutant: orderBy: { created_at: 'asc' }.
ClientsRepository_findAll_Ascending(s, ord) ==
    LET q == OrderByCreatedDesc(s, ord)
    IN Out(s, RetList([i \in DOMAIN q |-> q[Len(q) + 1 - i]]))

ClientsRepository_findAll(s, ord) == Out(s, RetList(OrderByCreatedDesc(s, ord)))

ClientsRepository_findById(s, id) == PrismaFindUnique(s, id)

ClientsRepository_create(s, data, newId, t) ==
    PrismaCreate(s, [name |-> data.name, metadata |-> data.metadata], newId, t)

\* Mutant: metadata: data.metadata ?? {} in place of the conditional spread.
UpdateData_DefaultsMetadata(data) ==
    [name |-> IF Truthy(data.name) THEN data.name ELSE Undefined,
     metadata |-> IF data.metadata.t # "undefined" THEN data.metadata ELSE Obj({})]

\* The object spread ...(c && {k: v}) adds the key only when c is truthy.
UpdateData(data) ==
    [name |-> IF Truthy(data.name) THEN data.name ELSE Undefined,
     metadata |-> IF data.metadata.t # "undefined" THEN data.metadata ELSE Undefined]

\* Mutant: catch (error) { return null; }
UpdateCatch_AnyError(o) ==
    IF o.res.t = "throw" THEN Out(o.store, RetNull) ELSE o

\* update's try/catch around the Prisma call, whose outcome is `o`:
\* catch (error) { if (error.code === 'P2025') return null; throw error; }
UpdateCatch(o) ==
    IF o.res.t = "throw"
    THEN IF o.res.err.code = "P2025" THEN Out(o.store, RetNull) ELSE o
    ELSE o

ClientsRepository_update(s, id, data, t) ==
    UpdateCatch(PrismaUpdate(s, id, UpdateData(data), t))

\* Mutant: the P2025 branch returns true as well.
ClientsRepository_delete_AlwaysTrue(s, id) == Out(PrismaDelete(s, id).store, RetBool(TRUE))

\* delete's try/catch around the Prisma call, whose outcome is `o`:
\* return true; catch (error) { if (error.code === 'P2025') return false; throw error; }
DeleteCatch(o) ==
    IF o.res.t = "throw"
    THEN IF o.res.err.code = "P2025" THEN Out(o.store, RetBool(FALSE)) ELSE o
    ELSE Out(o.store, RetBool(TRUE))

ClientsRepository_delete(s, id) == DeleteCatch(PrismaDelete(s, id))

\* Mutant: the where clause is left out, any row counts.
ClientsRepository_exists_AnyRow(s, id) == Out(s, RetBool(PrismaCount(s, DOMAIN s) > 0))

ClientsRepository_exists(s, id) == Out(s, RetBool(PrismaCount(s, {id}) > 0))

ClientsRepository_count(s) == PrismaCount(s, DOMAIN s)

-----------------------------------------------------------------------------
(* ClientsRepository, raw SQL methods *)

\* result[0] || null
FirstOrNull(rows) == IF Len(rows) > 0 THEN Ret(rows[1]) ELSE RetNull

ClientsRepository_findAllRaw(s, ord) == Out(s, RetList(OrderByCreatedDesc(s, ord)))

ClientsRepository_findByIdRaw(s, id) == Out(s, FirstOrNull(SqlSelectById(s, id)))

\* Mutant: the metadata parameter is always null.
MetadataParam_AlwaysNull(m) == Null

\* data.metadata ? JSON.stringify(data.metadata) : null
MetadataParam(m) == IF Truthy(m) THEN JSON_stringify(m) ELSE Null

ClientsRepository_createRaw(s, data, newId, t) ==
    LET o == SqlInsert(s, data.name, MetadataParam(data.metadata), newId, t)
    IN IF o.res.t = "throw" THEN o ELSE Out(o.store, Ret(o.res.rows[1]))

\* Mutant: updates.push('metadata = $2::jsonb'), numbered by hand like the name.
RawUpdates_MetadataIsSecond(data) ==
    LET u1 == IF data.name.t # "undefined"
              THEN <<[col |-> "name", ph |-> 1, cast |-> "none"]>> ELSE <<>>
    IN IF data.metadata.t # "undefined"
       THEN Append(u1, [col |-> "metadata", ph |-> 2, cast |-> "jsonb"])
       ELSE u1

\* The SET assignments updateRaw collects, in order.
RawUpdates(data) ==
    LET u1 == IF data.name.t # "undefined"
              THEN <<[col |-> "name", ph |-> 1, cast |-> "none"]>> ELSE <<>>
        n1 == IF data.name.t # "undefined" THEN 1 ELSE 0
    IN IF data.metadata.t # "undefined"
       THEN Append(u1, [col |-> "metadata", ph |-> n1 + 1, cast |-> "jsonb"])
       ELSE u1

\* The parameter list updateRaw collects, before the id is pushed.
RawValues(data) ==
    LET v1 == IF data.name.t # "undefined" THEN <<data.name>> ELSE <<>>
    IN IF data.metadata.t # "undefined"
       THEN Append(v1, MetadataParam(data.metadata))
       ELSE v1

\* WHERE id = $${values.length + 1}, computed before the id is pushed.
RawWherePlaceholder(data) == Len(RawValues(data)) + 1

\* values.push(id): the parameters handed to $queryRawUnsafe after the query.
RawParams(id, data) == Append(RawValues(data), Str(id))

\* Mutant: no early return when nothing was supplied; the UPDATE runs with
\* the updated_at refresh alone.
ClientsRepository_updateRaw_NoEarlyReturn(s, id, data, t) ==
    LET o == SqlUpdate(s, RawUpdates(data), Len(RawValues(data)) + 1,
                       Append(RawValues(data), Str(id)), t)
    IN IF o.res.t = "throw" THEN o ELSE Out(o.store, FirstOrNull(o.res.rows))

ClientsRepository_updateRaw(s, id, data, t) ==
    LET updates == RawUpdates(data)
    IN IF Len(updates) = 0
       THEN ClientsRepository_findById(s, id)
       ELSE LET o == SqlUpdate(s, updates, RawWherePlaceholder(data), RawParams(id, data), t)
            IN IF o.res.t = "throw" THEN o ELSE Out(o.store, FirstOrNull(o.res.rows))

\* Mutant: return result >= 0.
ClientsRepository_deleteRaw_AnyCount(s, id) ==
    LET o == SqlDelete(s, id)
    IN Out(o.store, RetBool(o.count >= 0))

ClientsRepository_deleteRaw(s, id) ==
    LET o == SqlDelete(s, id)
    IN Out(o.store, RetBool(o.count > 0))

-----------------------------------------------------------------------------
(* PrismaService (the Prisma client with its NestJS lifecycle hooks) and the  *)
(* health probe of DatabaseService (on the pg pool).  The client and the pool *)
(* are the environment: $connect, $disconnect, $queryRaw and pool.query       *)
(* resolve or reject with an Error, whichever the environment chooses.  `db`  *)
(* keeps the hooks called so far, the client and pool calls they issued, in   *)
(* order, and what the latest hook logged and returned.                       *)

MaxCalls == 4

\* new Error(message)
Error(m) == [name |-> "Error", code |-> "undefined", id |-> "-",
             message |-> m, stack |-> <<"Error", m>>]

Resolved == [t |-> "ok"]
Rejected(e) == [t |-> "rejected", err |-> e]

ConnectOutcomes ==
    {Resolved, Rejected(Error("Connection failed")), Rejected(Error("Connection timeout"))}
ProbeOutcomes ==
    {Resolved, Rejected(Error("Query failed")),
     Rejected(Error("Client not connected to database"))}
DisconnectOutcomes == {Resolved, Rejected(Error("Disconnect failed"))}

NotStarted == [connected |-> FALSE, calls |-> <<>>, issued |-> <<>>,
               logged |-> <<>>, res |-> RetVoid]

\* A hook is entered: it joins the history, the log of the latest hook starts empty.
Enter(d, hook) == [d EXCEPT !.calls = Append(@, hook), !.logged = <<>>]

\* The hook now running awaits the client or pool method `q`.
Issue(d, q, outcome) ==
    [d EXCEPT !.issued = Append(@, [by |-> Len(d.calls), q |-> q, outcome |-> outcome])]

Logged(d, level, msg, arg) ==
    [d EXCEPT !.logged = Append(@, [level |-> level, msg |-> msg, arg |-> arg])]

\* Mutant: the catch block logs and returns.
PrismaService_onModuleInit_Swallows(d, outcome) ==
    LET d1 == Issue(Enter(d, "onModuleInit"), "$connect", outcome)
    IN IF outcome.t = "ok"
       THEN [Logged(d1, "log", "Database connection established successfully", "-")
                EXCEPT !.connected = TRUE, !.res = RetVoid]
       ELSE [Logged(d1, "error", "Database connection failed", outcome.err.message)
                EXCEPT !.res = RetVoid]

\* try { await this.$connect(); log } catch (error) { error(..., error.message); throw error }
PrismaService_onModuleInit(d, outcome) ==
    LET d1 == Issue(Enter(d, "onModuleInit"), "$connect", outcome)
    IN IF outcome.t = "ok"
       THEN [Logged(d1, "log", "Database connection established successfully", "-")
                EXCEPT !.connected = TRUE, !.res = RetVoid]
       ELSE [Logged(d1, "error", "Database connection failed", outcome.err.message)
                EXCEPT !.res = Throw(outcome.err)]

\* Mutant: if (this.connected) { await this.$disconnect() }.
PrismaService_onModuleDestroy_Guarded(d, outcome) ==
    IF ~d.connected
    THEN [Enter(d, "onModuleDestroy") EXCEPT !.res = RetVoid]
    ELSE LET d1 == Issue(Enter(d, "onModuleDestroy"), "$disconnect", outcome)
         IN IF outcome.t = "ok"
            THEN [Logged(d1, "log", "Database connection closed", "-")
                     EXCEPT !.connected = FALSE, !.res = RetVoid]
            ELSE [d1 EXCEPT !.res = Throw(outcome.err)]

\* await this.$disconnect(); this.logger.log('Database connection closed')
PrismaService_onModuleDestroy(d, outcome) ==
    LET d1 == Issue(Enter(d, "onModuleDestroy"), "$disconnect", outcome)
    IN IF outcome.t = "ok"
       THEN [Logged(d1, "log", "Database connection closed", "-")
                EXCEPT !.connected = FALSE, !.res = RetVoid]
       ELSE [d1 EXCEPT !.res = Throw(outcome.err)]

\* Mutant: no try/catch around the probe.
PrismaService_isHealthy_NoCatch(d, outcome) ==
    LET d1 == Issue(Enter(d, "isHealthy"), "$queryRaw SELECT 1", outcome)
    IN IF outcome.t = "ok"
       THEN [d1 EXCEPT !.connected = TRUE, !.res = RetBool(TRUE)]
       ELSE [d1 EXCEPT !.res = Throw(outcome.err)]

\* try { await this.$queryRaw`SELECT 1`; return true } catch { return false }
\* The client connects by itself on its first query.
PrismaService_isHealthy(d, outcome) ==
    LET d1 == Issue(Enter(d, "isHealthy"), "$queryRaw SELECT 1", outcome)
    IN IF outcome.t = "ok"
       THEN [d1 EXCEPT !.connected = TRUE, !.res = RetBool(TRUE)]
       ELSE [d1 EXCEPT !.res = RetBool(FALSE)]

\* try { await this.pool.query('SELECT 1'); return true }
\* catch (error) { error('Database health check failed', error.stack); return false }
DatabaseService_isHealthy(d, outcome) ==
    LET d1 == Issue(Enter(d, "DatabaseService.isHealthy"), "pool.query SELECT 1", outcome)
    IN IF outcome.t = "ok"
       THEN [d1 EXCEPT !.res = RetBool(TRUE)]
       ELSE [Logged(d1, "error", "Database health check failed", outcome.err.stack)
                EXCEPT !.res = RetBool(FALSE)]

-----------------------------------------------------------------------------
(* AppService: the health endpoint.  Date.now() and process.memoryUsage()    *)
(* are inputs from the environment; a rendered string is the sequence of its *)
(* parts, a number next to its unit.                                         *)

\* `${n}u`, parts being joined by single spaces.
Part(n, u) == [n |-> n, u |-> u]

\* Mutant: `${days}d ${hours}h ${minutes % 60}m`, the hours not reduced.
formatUptime_HoursNotReduced(ms) ==
    LET seconds == ms \div 1000
        minutes == seconds \div 60
        hours == minutes \div 60
        days == hours \div 24
    IN IF days > 0
       THEN <<Part(days, "d"), Part(hours, "h"), Part(minutes % 60, "m")>>
       ELSE IF hours > 0
       THEN <<Part(hours, "h"), Part(minutes % 60, "m"), Part(seconds % 60, "s")>>
       ELSE IF minutes > 0
       THEN <<Part(minutes, "m"), Part(seconds % 60, "s")>>
       ELSE <<Part(seconds, "s")>>

formatUptime(ms) ==
    LET seconds == ms \div 1000
        minutes == seconds \div 60
        hours == minutes \div 60
        days == hours \div 24
    IN IF days > 0
       THEN <<Part(days, "d"), Part(hours % 24, "h"), Part(minutes % 60, "m")>>
       ELSE IF hours > 0
       THEN <<Part(hours, "h"), Part(minutes % 60, "m"), Part(seconds % 60, "s")>>
       ELSE IF minutes > 0
       THEN <<Part(minutes, "m"), Part(seconds % 60, "s")>>
       ELSE <<Part(seconds, "s")>>

\* `${Math.round(bytes / 1024 / 1024)} MB`
RoundMB(bytes) == Part((2 * bytes + 1048576) \div 2097152, "MB")

\* AppService.health() called at time nowMs by a service constructed at
\* startTime, with process.memoryUsage() = mem.
AppService_health(startTime, nowMs, mem) ==
    LET uptime == nowMs - startTime
    IN [status |-> "ok",
        message |-> "Service is healthy and running",
        timestamp |-> nowMs,
        service |-> [name |-> "backend-gateway-service", version |-> "1.0.0",
                     environment |-> "development"],
        uptime |-> [milliseconds |-> uptime,
                    seconds |-> uptime \div 1000,
                    formatted |-> formatUptime(uptime)],
        system |-> [nodeVersion |-> "process.version", platform |-> "process.platform",
                    architecture |-> "process.arch", pid |-> "process.pid"],
        memory |-> [heapUsed |-> RoundMB(mem.heapUsed), heapTotal |-> RoundMB(mem.heapTotal),
                    rss |-> RoundMB(mem.rss), external |-> RoundMB(mem.external)]]

\* The time since construction as days, hours, minutes, seconds and a rest of
\* milliseconds, and the milliseconds it amounts to.
Elapsed == [d : {0, 1, 2}, h : {0, 1, 23}, m : {0, 1, 59}, s : {0, 1, 59}, f : {0, 999}]
Millis(e) == (((e.d * 24 + e.h) * 60 + e.m) * 60 + e.s) * 1000 + e.f

MemoryUsages == {[heapUsed |-> 20447232, heapTotal |-> 36700160,
                  rss |-> 73924608, external |-> 524288]}

NoElapsed == [d |-> 0, h |-> 0, m |-> 0, s |-> 0, f |-> 0]
NotProbed == [startTime |-> 0, elapsed |-> NoElapsed, health |-> [status |-> "none"]]

\* GET /health, `e` after the service was constructed.
Health(e, mem) ==
    /\ Millis(e) >= Millis(app.elapsed)
    /\ app' = [app EXCEPT !.elapsed = e,
                          !.health = AppService_health(app.startTime,
                                                       app.startTime + Millis(e), mem)]
    /\ UNCHANGED <<store, used, now, last, procs, prismaNull, tx, seen, db, deploy, wait>>

NoDeploy == [pc |-> "idle"]
NoWait == [pc |-> "idle"]

-----------------------------------------------------------------------------
(* Inputs *)

\* What a CreateClientsDto can carry after validation (@IsString name,
\* @IsOptional @IsObject metadata: undefined and null both pass).
Metas == {Undefined, Null, Obj({}), Obj({<<"x", 1>>})}
CreateDtos == [name : {Str("A")}, metadata : Metas]

\* What an UpdateClientsDto can carry (@IsOptional @IsString name).
UpdateDtos == [name : {Undefined, Null, Str(""), Str("B")}, metadata : Metas]

NoData == [name |-> Undefined, metadata |-> Undefined]
EmptyStore == <<>>
Styles == {"prisma", "raw"}

\* No $transaction in progress; no read made yet.
NoTx == [pc |-> "idle", batch |-> <<>>, k |-> 1, view |-> EmptyStore, ids |-> {},
         countBefore |-> 0, res |-> RetVoid]
NoRead == [count |-> 0, ids |-> {}, during |-> FALSE]

NoCall == [op |-> "none", style |-> "-", id |-> "-", data |-> NoData,
           pre |-> EmptyStore, at |-> 0, res |-> RetVoid, alt |-> Out(EmptyStore, RetVoid)]

-----------------------------------------------------------------------------
(* Repository calls, one awaited query each.  `last` records the call just  *)
(* made: its inputs, the table before it, its result, and what the method   *)
(* of the other style returns from the same table on the same inputs.       *)

Other(style) == IF style = "prisma" THEN "raw" ELSE "prisma"

FindAllOf(style, s, ord) ==
    IF style = "prisma" THEN ClientsRepository_findAll(s, ord)
    ELSE ClientsRepository_findAllRaw(s, ord)

FindByIdOf(style, s, id) ==
    IF style = "prisma" THEN ClientsRepository_findById(s, id)
    ELSE ClientsRepository_findByIdRaw(s, id)

CreateOf(style, s, data, newId, t) ==
    IF style = "prisma" THEN ClientsRepository_create(s, data, newId, t)
    ELSE ClientsRepository_createRaw(s, data, newId, t)

UpdateOf(style, s, id, data, t) ==
    IF style = "prisma" THEN ClientsRepository_update(s, id, data, t)
    ELSE ClientsRepository_updateRaw(s, id, data, t)

DeleteOf(style, s, id) ==
    IF style = "prisma" THEN ClientsRepository_delete(s, id)
    ELSE ClientsRepository_deleteRaw(s, id)

Called(op, style, id, data, o, alt) ==
    /\ last = NoCall
    /\ store' = o.store
    /\ last' = [op |-> op, style |-> style, id |-> id, data |-> data,
                pre |-> store, at |-> now, res |-> o.res, alt |-> alt]
    /\ UNCHANGED <<now, procs, prismaNull, app, deploy, wait, db, tx, seen>>

RepoFindAll(style, ord) ==
    /\ Called("findAll", style, "-", NoData,
              FindAllOf(style, store, ord), FindAllOf(Other(style), store, ord))
    /\ UNCHANGED used

RepoFindById(style, id) ==
    /\ Called("findById", style, id, NoData,
              FindByIdOf(style, store, id), FindByIdOf(Other(style), store, id))
    /\ UNCHANGED used

RepoCreate(style, data, newId) ==
    /\ newId \notin used
    /\ Called("create", style, newId, data,
              CreateOf(style, store, data, newId, now),
              CreateOf(Other(style), store, data, newId, now))
    /\ used' = used \cup (DOMAIN store')

RepoUpdate(style, id, data) ==
    /\ Called("update", style, id, data,
              UpdateOf(style, store, id, data, now),
              UpdateOf(Other(style), store, id, data, now))
    /\ UNCHANGED used

RepoDelete(style, id) ==
    /\ Called("delete", style, id, NoData,
              DeleteOf(style, store, id), DeleteOf(Other(style), store, id))
    /\ UNCHANGED used

\* exists and count have one style only.
RepoExists(id) ==
    /\ Called("exists", "prisma", id, NoData,
              ClientsRepository_exists(store, id), ClientsRepository_exists(store, id))
    /\ UNCHANGED used

RepoCount ==
    /\ Called("count", "prisma", "-", NoData,
              Out(store, RetInt(ClientsRepository_count(store))),
              Out(store, RetInt(ClientsRepository_count(store))))
    /\ UNCHANGED used

\* The caller takes the result; the repository is ready for the next call.
RepoReturn ==
    /\ last # NoCall
    /\ last' = NoCall
    /\ UNCHANGED <<store, used, now, procs, prismaNull, app, deploy, wait, db, tx, seen>>

\* Time passes between queries.
Tick ==
    /\ last = NoCall
    /\ now < MaxTime
    /\ now' = now + 1
    /\ UNCHANGED <<store, used, last, procs, prismaNull, app, deploy, wait, db, tx, seen>>

InitRepo ==
    /\ store = EmptyStore
    /\ used = {}
    /\ now = 0
    /\ last = NoCall
    /\ procs = <<>>
    /\ prismaNull \in {"rejected", "jsonNull"}
    /\ db = NotStarted
    /\ app = NotProbed
    /\ deploy = NoDeploy
    /\ wait = NoWait
    /\ tx = NoTx
    /\ seen = NoRead

NextRepo ==
    \/ \E style \in Styles, ord \in Perms(Ids) : RepoFindAll(style, ord)
    \/ \E style \in Styles, id \in Ids : RepoFindById(style, id)
    \/ \E style \in Styles, data \in CreateDtos, newId \in Ids : RepoCreate(style, data, newId)
    \/ \E style \in Styles, id \in Ids, data \in UpdateDtos : RepoUpdate(style, id, data)
    \/ \E style \in Styles, id \in Ids : RepoDelete(style, id)
    \/ \E id \in Ids : RepoExists(id)
    \/ RepoCount
    \/ RepoReturn
    \/ Tick

SpecRepo == InitRepo /\ [][NextRepo]_vars

-----------------------------------------------------------------------------
(* ClientsService.  Requests run concurrently; each awaited repository call  *)
(* is one step, and other requests may run between two awaits of a request.  *)
(* A request record keeps what its queries saw: `checked` for the existence  *)
(* pre-check, `wrote` for the repository update/delete ("-" when it was      *)
(* never invoked), `snap` for the rows its latest query matched, `repo` for   *)
(* what the repository update/delete gave the service, `fault` for the       *)
(* persistence fault the database raised during the request, if any.         *)

Procs == {"p1", "p2"}

SvcCreateDtos == {[name |-> Str("A"), metadata |-> Obj({<<"x", 1>>})]}
SvcUpdateDtos == {[name |-> Str("B"), metadata |-> Undefined],
                  [name |-> Undefined, metadata |-> Obj({})],
                  [name |-> Undefined, metadata |-> Null]}

Idle == [pc |-> "idle", op |-> "none", id |-> "-", data |-> NoData,
         checked |-> "-", wrote |-> "-", snap |-> <<>>, res |-> RetVoid,
         repo |-> RetVoid, fault |-> NoFault]

RowsOf(s, id) == IF id \in DOMAIN s THEN <<s[id]>> ELSE <<>>

\* Mutant: the absent result is handed on as it is.
OrNotFound_PassNull(r, id) == r

\* if (!client) throw new NotFoundException(...); return client;
OrNotFound(r, id) == IF r.t = "null" THEN Throw(NotFoundException(id)) ELSE r

\* ClientsService.findById / findByIdRaw: repository read, absent becomes NotFound.
ClientsService_findById(s, id) ==
    OrNotFound(ClientsRepository_findById(s, id).res, id)

ClientsService_findByIdRaw(s, id) ==
    OrNotFound(ClientsRepository_findByIdRaw(s, id).res, id)

\* ClientsService.update after its pre-check: const updated = await
\* repository.update(id, dto); if (!updated) throw NotFound; return updated.
UpdateResult(o, id) == Out(o.store, OrNotFound(o.res, id))

ClientsService_updateWrite(s, id, data, t) ==
    UpdateResult(ClientsRepository_update(s, id, data, t), id)

\* Mutant: the repository's false is not looked at.
DeleteResult_IgnoresFalse(o, id) ==
    Out(o.store, IF o.res.t = "throw" THEN o.res ELSE RetVoid)

\* ClientsService.delete after its pre-check: const deleted = await
\* repository.delete(id); if (!deleted) throw NotFound.
DeleteResult(o, id) ==
    Out(o.store,
        IF o.res.t = "throw" THEN o.res
        ELSE IF o.res.b THEN RetVoid ELSE Throw(NotFoundException(id)))

ClientsService_deleteWrite(s, id) ==
    DeleteResult(ClientsRepository_delete(s, id), id)

\* What a repository write did to the row `id`: it matched no row ("miss"),
\* matched one and changed the table ("hit") or matched one and left it ("kept").
WriteEffect(s, s2, id) ==
    IF id \notin DOMAIN s THEN "miss" ELSE IF s2 = s THEN "kept" ELSE "hit"

Step(p, q) ==
    /\ procs' = [procs EXCEPT ![p] = q]
    /\ UNCHANGED <<now, last, prismaNull, app, deploy, wait, db, tx, seen>>

SvcCreate(p, data, newId) ==
    /\ procs[p].pc = "idle"
    /\ newId \notin used
    /\ LET o == ClientsRepository_create(store, data, newId, now)
       IN /\ store' = o.store
          /\ used' = used \cup DOMAIN o.store
          /\ Step(p, [Idle EXCEPT !.pc = "done", !.op = "create", !.id = newId,
                                  !.data = data, !.res = o.res])

SvcFindById(p, id) ==
    /\ procs[p].pc = "idle"
    /\ Step(p, [Idle EXCEPT !.pc = "done", !.op = "findById", !.id = id,
                            !.snap = RowsOf(store, id),
                            !.res = ClientsService_findById(store, id)])
    /\ UNCHANGED <<store, used>>

SvcFindByIdRaw(p, id) ==
    /\ procs[p].pc = "idle"
    /\ Step(p, [Idle EXCEPT !.pc = "done", !.op = "findByIdRaw", !.id = id,
                            !.snap = RowsOf(store, id),
                            !.res = ClientsService_findByIdRaw(store, id)])
    /\ UNCHANGED <<store, used>>

\* Mutant: no pre-check, the call goes on to the repository write.
SvcCheck_NoPreCheck(p, op, id, data) ==
    /\ procs[p].pc = "idle"
    /\ LET r == ClientsService_findById(store, id)
       IN Step(p, [Idle EXCEPT !.op = op, !.id = id, !.data = data,
                               !.snap = RowsOf(store, id),
                               !.checked = IF r.t = "throw" THEN "absent" ELSE "found",
                               !.pc = "write"])
    /\ UNCHANGED <<store, used>>

\* update / delete, first await: this.findById(id) throws or lets the call go on.
SvcCheck(p, op, id, data) ==
    /\ procs[p].pc = "idle"
    /\ LET r == ClientsService_findById(store, id)
       IN Step(p, [Idle EXCEPT !.op = op, !.id = id, !.data = data,
                               !.snap = RowsOf(store, id),
                               !.checked = IF r.t = "throw" THEN "absent" ELSE "found",
                               !.pc = IF r.t = "throw" THEN "done" ELSE "write",
                               !.res = IF r.t = "throw" THEN r ELSE RetVoid])
    /\ UNCHANGED <<store, used>>

\* update, second await.
SvcUpdateWrite(p) ==
    /\ procs[p].pc = "write" /\ procs[p].op = "update"
    /\ LET o == ClientsService_updateWrite(store, procs[p].id, procs[p].data, now)
       IN /\ store' = o.store
          /\ Step(p, [procs[p] EXCEPT !.pc = "done", !.res = o.res,
                                      !.repo = ClientsRepository_update(
                                                  store, procs[p].id, procs[p].data, now).res,
                                      !.snap = RowsOf(store, procs[p].id),
                                      !.wrote = WriteEffect(store, o.store, procs[p].id)])
    /\ UNCHANGED used

\* delete, second await.
SvcDeleteWrite(p) ==
    /\ procs[p].pc = "write" /\ procs[p].op = "delete"
    /\ LET o == ClientsService_deleteWrite(store, procs[p].id)
       IN /\ store' = o.store
          /\ Step(p, [procs[p] EXCEPT !.pc = "done", !.res = o.res,
                                      !.repo = ClientsRepository_delete(store, procs[p].id).res,
                                      !.snap = RowsOf(store, procs[p].id),
                                      !.wrote = WriteEffect(store, o.store, procs[p].id)])
    /\ UNCHANGED used

\* The response is sent; the worker takes the next request.
SvcReturn(p) ==
    /\ procs[p].pc = "done"
    /\ Step(p, Idle)
    /\ UNCHANGED <<store, used>>

Init ==
    /\ store = EmptyStore
    /\ used = {}
    /\ now = 0
    /\ last = NoCall
    /\ procs = [p \in Procs |-> Idle]
    /\ prismaNull \in {"rejected", "jsonNull"}
    /\ db = NotStarted
    /\ app = NotProbed
    /\ deploy = NoDeploy
    /\ wait = NoWait
    /\ tx = NoTx
    /\ seen = NoRead

Next ==
    \/ \E p \in Procs, data \in SvcCreateDtos, newId \in Ids : SvcCreate(p, data, newId)
    \/ \E p \in Procs, id \in Ids : SvcFindById(p, id)
    \/ \E p \in Procs, id \in Ids : SvcFindByIdRaw(p, id)
    \/ \E p \in Procs, id \in Ids, data \in SvcUpdateDtos : SvcCheck(p, "update", id, data)
    \/ \E p \in Procs, id \in Ids : SvcCheck(p, "delete", id, NoData)
    \/ \E p \in Procs : SvcUpdateWrite(p)
    \/ \E p \in Procs : SvcDeleteWrite(p)
    \/ \E p \in Procs : SvcReturn(p)

Spec == Init /\ [][Next]_vars

-----------------------------------------------------------------------------
(* The same service on a database that can fail: the write of a request may  *)
(* raise a persistence fault in place of its result.  The fault is raised    *)
(* once; the same query issued again would go through.                       *)

\* update, second await: prisma.clients.update raises `f`.
SvcUpdateWriteFault(p, f) ==
    /\ procs[p].pc = "write" /\ procs[p].op = "update"
    /\ LET r == UpdateCatch(Out(store, Throw(f)))
           o == UpdateResult(r, procs[p].id)
       IN /\ store' = o.store
          /\ Step(p, [procs[p] EXCEPT !.pc = "done", !.res = o.res, !.repo = r.res,
                                      !.fault = f,
                                      !.snap = RowsOf(store, procs[p].id),
                                      !.wrote = WriteEffect(store, o.store, procs[p].id)])
    /\ UNCHANGED used

\* delete, second await: prisma.clients.delete raises `f`.
SvcDeleteWriteFault(p, f) ==
    /\ procs[p].pc = "write" /\ procs[p].op = "delete"
    /\ LET r == DeleteCatch(Out(store, Throw(f)))
           o == DeleteResult(r, procs[p].id)
       IN /\ store' = o.store
          /\ Step(p, [procs[p] EXCEPT !.pc = "done", !.res = o.res, !.repo = r.res,
                                      !.fault = f,
                                      !.snap = RowsOf(store, procs[p].id),
                                      !.wrote = WriteEffect(store, o.store, procs[p].id)])
    /\ UNCHANGED used

NextFault ==
    \/ \E p \in Procs, data \in SvcCreateDtos, newId \in Ids : SvcCreate(p, data, newId)
    \/ \E p \in Procs, id \in Ids, data \in SvcUpdateDtos : SvcCheck(p, "update", id, data)
    \/ \E p \in Procs, id \in Ids : SvcCheck(p, "delete", id, NoData)
    \/ \E p \in Procs : SvcUpdateWrite(p)
    \/ \E p \in Procs : SvcDeleteWrite(p)
    \/ \E p \in Procs, f \in Faults : SvcUpdateWriteFault(p, f)
    \/ \E p \in Procs, f \in Faults : SvcDeleteWriteFault(p, f)
    \/ \E p \in Procs : SvcReturn(p)

SpecFault == Init /\ [][NextFault]_vars

-----------------------------------------------------------------------------
(* The lifecycle of PrismaService: NestJS, a health endpoint or a test calls  *)
(* the hooks and the probes in any order, one call at a time.                 *)

Hooked(d) ==
    /\ Len(db.calls) < MaxCalls
    /\ db' = d
    /\ UNCHANGED <<store, used, now, last, procs, prismaNull, app, deploy, wait, tx, seen>>

OnModuleInit(outcome) == Hooked(PrismaService_onModuleInit(db, outcome))

OnModuleDestroy(outcome) == Hooked(PrismaService_onModuleDestroy(db, outcome))

IsHealthy(outcome) == Hooked(PrismaService_isHealthy(db, outcome))

DatabaseIsHealthy(outcome) == Hooked(DatabaseService_isHealthy(db, outcome))

InitLife ==
    /\ store = EmptyStore
    /\ used = {}
    /\ now = 0
    /\ last = NoCall
    /\ procs = <<>>
    /\ prismaNull \in {"rejected", "jsonNull"}
    /\ db = NotStarted
    /\ app = NotProbed
    /\ deploy = NoDeploy
    /\ wait = NoWait
    /\ tx = NoTx
    /\ seen = NoRead

NextLife ==
    \/ \E outcome \in ConnectOutcomes : OnModuleInit(outcome)
    \/ \E outcome \in DisconnectOutcomes : OnModuleDestroy(outcome)
    \/ \E outcome \in ProbeOutcomes : IsHealthy(outcome)
    \/ \E outcome \in ProbeOutcomes : DatabaseIsHealthy(outcome)

SpecLife == InitLife /\ [][NextLife]_vars

-----------------------------------------------------------------------------
(* AppService: constructed at some time, then asked for its health at later  *)
(* times.                                                                    *)

\* this.startTime = Date.now()
StartTimes == {0, 86399000}

InitApp ==
    /\ store = EmptyStore
    /\ used = {}
    /\ now = 0
    /\ last = NoCall
    /\ procs = <<>>
    /\ prismaNull = "jsonNull"
    /\ db = NotStarted
    /\ app \in {[NotProbed EXCEPT !.startTime = t] : t \in StartTimes}
    /\ deploy = NoDeploy
    /\ wait = NoWait
    /\ tx = NoTx
    /\ seen = NoRead

NextApp == \E e \in Elapsed, mem \in MemoryUsages : Health(e, mem)

SpecApp == InitApp /\ [][NextApp]_vars

-----------------------------------------------------------------------------
(* The zero-downtime deployment script, deploy.sh on the EC2 host, run under *)
(* `set -e`: a failing command that is not followed by `|| true` ends the    *)
(* script with a non-zero status.  The host has the production container     *)
(* (name $NAME, port 3000) and the temporary one (name $TEMP_NAME, port      *)
(* 3001).  Whether the pull works and whether the new container answers      *)
(* /health at an attempt is up to the environment.  One action per command.  *)

\* for i in {1..20}
HealthAttempts == 20

PORT == 3000
TEMP_PORT == 3001

Absent == [state |-> "absent", port |-> 0, image |-> "-"]
Container(state, port, image) == [state |-> state, port |-> port, image |-> image]

\* docker stop <name>: a running container is stopped, a stopped one stays so.
DockerStop(c) == IF c.state = "running" THEN [c EXCEPT !.state = "exited"] ELSE c

\* What the host may look like when the script starts: the old version in
\* production or nothing yet, a temporary container left over or none.
DeployStarts ==
    [pc : {"pull"}, i : {1}, success : {FALSE}, status : {-1}, probes : {0},
     prod : {Absent, Container("running", PORT, "old")},
     temp : {Absent, Container("running", TEMP_PORT, "old"),
             Container("exited", TEMP_PORT, "old")},
     old : {Absent}]

Deploying(pc, d) ==
    /\ deploy.pc = pc
    /\ deploy' = d
    /\ UNCHANGED <<store, used, now, last, procs, prismaNull, tx, seen, db, app, wait>>

\* aws ecr get-login-password | docker login; docker pull $ECR_REPO:latest
DeployPull(ok) ==
    Deploying("pull", IF ok THEN [deploy EXCEPT !.pc = "cleanTemp"]
                      ELSE [deploy EXCEPT !.pc = "exited", !.status = 1])

\* docker rm -f $TEMP_NAME 2>/dev/null || true
DeployCleanTemp ==
    Deploying("cleanTemp", [deploy EXCEPT !.pc = "runTemp", !.temp = Absent])

\* docker run -d -p ${TEMP_PORT}:${PORT} --name $TEMP_NAME $ECR_REPO:latest
DeployRunTemp ==
    Deploying("runTemp",
              IF deploy.temp # Absent
              THEN [deploy EXCEPT !.pc = "exited", !.status = 125]
              ELSE [deploy EXCEPT !.pc = "probe",
                                  !.temp = Container("running", TEMP_PORT, "new")])

\* if curl -fsS http://localhost:${TEMP_PORT}/health; then success=true; break; fi
DeployProbe(ok) ==
    Deploying("probe",
              IF ok THEN [deploy EXCEPT !.pc = "afterLoop", !.success = TRUE,
                                        !.probes = @ + 1]
              ELSE [deploy EXCEPT !.pc = "sleep", !.probes = @ + 1])

\* echo "Attempt $i/20 ..."; sleep 2; done
DeploySleep ==
    Deploying("sleep",
              IF deploy.i < HealthAttempts
              THEN [deploy EXCEPT !.pc = "probe", !.i = @ + 1]
              ELSE [deploy EXCEPT !.pc = "afterLoop"])

\* if [ "$success" = false ]; then ... docker logs $TEMP_NAME --tail 50
DeployLogs ==
    /\ ~deploy.success
    /\ Deploying("afterLoop",
                 IF deploy.temp = Absent
                 THEN [deploy EXCEPT !.pc = "exited", !.status = 1]
                 ELSE [deploy EXCEPT !.pc = "rmFailed"])

\* Mutant: the failed container is left behind; exit 1.
DeployRmFailed_LeavesContainer ==
    Deploying("rmFailed", [deploy EXCEPT !.pc = "exited", !.status = 1])

\* docker rm -f $TEMP_NAME; echo "Deployment aborted"; exit 1
DeployRmFailed ==
    Deploying("rmFailed", [deploy EXCEPT !.pc = "exited", !.status = 1, !.temp = Absent])

\* docker stop $NAME 2>/dev/null || true
DeployStopOld ==
    /\ deploy.success
    /\ Deploying("afterLoop", [deploy EXCEPT !.pc = "rmOld", !.prod = DockerStop(@)])

\* docker rm -f $NAME 2>/dev/null || true
DeployRmOld ==
    Deploying("rmOld", [deploy EXCEPT !.pc = "stopTemp", !.prod = Absent])

\* docker stop $TEMP_NAME
DeployStopTemp ==
    Deploying("stopTemp",
              IF deploy.temp = Absent
              THEN [deploy EXCEPT !.pc = "exited", !.status = 1]
              ELSE [deploy EXCEPT !.pc = "rename", !.temp = DockerStop(@)])

\* docker rename $TEMP_NAME $NAME
DeployRename ==
    Deploying("rename",
              IF deploy.temp = Absent \/ deploy.prod # Absent
              THEN [deploy EXCEPT !.pc = "exited", !.status = 1]
              ELSE [deploy EXCEPT !.pc = "rmRenamed", !.prod = deploy.temp, !.temp = Absent])

\* docker rm -f $NAME
DeployRmRenamed ==
    Deploying("rmRenamed", [deploy EXCEPT !.pc = "runProd", !.prod = Absent])

\* docker run -d -p ${PORT}:${PORT} --name $NAME --restart unless-stopped $ECR_REPO:latest
\* docker ps; echo "Deployment complete!"
DeployRunProd ==
    Deploying("runProd",
              IF deploy.prod # Absent
              THEN [deploy EXCEPT !.pc = "exited", !.status = 125]
              ELSE [deploy EXCEPT !.pc = "exited", !.status = 0,
                                  !.prod = Container("running", PORT, "new")])

InitDeploy ==
    /\ store = EmptyStore
    /\ used = {}
    /\ now = 0
    /\ last = NoCall
    /\ procs = <<>>
    /\ prismaNull = "jsonNull"
    /\ db = NotStarted
    /\ app = NotProbed
    /\ deploy \in {[d EXCEPT !.old = d.prod] : d \in DeployStarts}
    /\ wait = NoWait
    /\ tx = NoTx
    /\ seen = NoRead

NextDeploy ==
    \/ \E ok \in BOOLEAN : DeployPull(ok)
    \/ DeployCleanTemp
    \/ DeployRunTemp
    \/ \E ok \in BOOLEAN : DeployProbe(ok)
    \/ DeploySleep
    \/ DeployLogs
    \/ DeployRmFailed
    \/ DeployStopOld
    \/ DeployRmOld
    \/ DeployStopTemp
    \/ DeployRename
    \/ DeployRmRenamed
    \/ DeployRunProd

SpecDeploy == InitDeploy /\ [][NextDeploy]_vars

-----------------------------------------------------------------------------
(* Jenkinsfile, stage 'Wait for Render (Cold Start)': probe HEALTH_URL every *)
(* INTERVAL seconds until it answers 200 or MAX_WAIT seconds have been       *)
(* waited.  `curl ... || true` never fails the step: a failed connection     *)
(* prints the status "000".                                                  *)

MAX_WAIT == 480
INTERVAL == 20

HttpStatuses == {"200", "503", "000"}

WaitStart == [pc |-> "test", waited |-> 0, probes |-> 0, status |-> "-"]

Waiting(pc, w) ==
    /\ wait.pc = pc
    /\ wait' = w
    /\ UNCHANGED <<store, used, now, last, procs, prismaNull, tx, seen, db, app, deploy>>

\* Mutant: the loop runs once more, while (waited <= maxWait).
WaitTest_Inclusive ==
    Waiting("test", IF wait.waited <= MAX_WAIT THEN [wait EXCEPT !.pc = "probe"]
                    ELSE [wait EXCEPT !.pc = "failed"])

\* while (waited < maxWait) { ... }  error "Service did not become healthy in time"
WaitTest ==
    Waiting("test", IF wait.waited < MAX_WAIT THEN [wait EXCEPT !.pc = "probe"]
                    ELSE [wait EXCEPT !.pc = "failed"])

\* def status = sh(curl -s -o /dev/null -w "%{http_code}" ...).trim()
\* if (status == "200") { echo "Service is UP!"; return }
WaitProbe(status) ==
    Waiting("probe", [wait EXCEPT !.status = status, !.probes = @ + 1,
                                  !.pc = IF status = "200" THEN "succeeded" ELSE "sleep"])

\* waited += interval; echo "Still starting..."; sleep interval
WaitSleep ==
    Waiting("sleep", [wait EXCEPT !.waited = @ + INTERVAL, !.pc = "test"])

InitWait ==
    /\ store = EmptyStore
    /\ used = {}
    /\ now = 0
    /\ last = NoCall
    /\ procs = <<>>
    /\ prismaNull = "jsonNull"
    /\ db = NotStarted
    /\ app = NotProbed
    /\ deploy = NoDeploy
    /\ wait = WaitStart
    /\ tx = NoTx
    /\ seen = NoRead

NextWait ==
    \/ WaitTest
    \/ \E status \in HttpStatuses : WaitProbe(status)
    \/ WaitSleep

SpecWait == InitWait /\ [][NextWait]_vars

\* The pipeline runs the steps of the script block one after the other, and
\* every sh and sleep step returns: a step that can be taken is taken.
SpecWaitFair == SpecWait /\ WF_vars(NextWait)

-----------------------------------------------------------------------------
(* ClientsRepository.createMultiple: prisma.$transaction([create, ...]).     *)
(* The inserts run one after the other inside one database transaction.  The *)
(* transaction works on its own view of the table; other sessions read the   *)
(* committed table (`store`) only.  A failing insert rolls everything back   *)
(* and its error rejects the $transaction promise.                           *)

MaxBatch == 3

\* The UUIDs the inserts of the batches can draw.
TxIds == {"t1", "t2", "t3", "t4"}

BatchDtos == {[name |-> Str("A"), metadata |-> Undefined],
              [name |-> Str("B"), metadata |-> Null],
              [name |-> Null, metadata |-> Undefined]}

Batches == UNION {[1..n -> BatchDtos] : n \in 1..MaxBatch}

\* Mutant: the creates run on their own (Promise.all), each insert commits.
CommittedAfterInsert_Autocommit(s, o) == o.store

\* The committed table after an insert made inside the open transaction: the
\* row is in the transaction's view only.
CommittedAfterInsert(s, o) == s

\* return this.prisma.$transaction(clients.map(client => create(...)))
CreateMultipleBegin(batch) ==
    /\ tx.pc = "idle"
    /\ Len(batch) <= Cardinality(TxIds \ used)
    /\ tx' = [NoTx EXCEPT !.pc = "open", !.batch = batch, !.view = store,
                          !.countBefore = ClientsRepository_count(store),
                          !.res = RetList(<<>>)]
    /\ UNCHANGED <<store, used, now, last, procs, prismaNull, app, deploy, wait, db, seen>>

\* The id the column default generates: some UUID not handed out before.
FreshTxId == CHOOSE i \in TxIds : i \notin used

\* The k-th prisma.clients.create({ data: { name, metadata } }) of the batch.
CreateMultipleInsert ==
    /\ tx.pc = "open" /\ tx.k <= Len(tx.batch)
    /\ LET d == tx.batch[tx.k]
           newId == FreshTxId
           o == PrismaCreate(tx.view, [name |-> d.name, metadata |-> d.metadata], newId, now)
       IN IF o.res.t = "throw"
          THEN /\ tx' = [tx EXCEPT !.pc = "done", !.res = o.res, !.view = EmptyStore]
               /\ UNCHANGED <<store, used>>
          ELSE /\ tx' = [tx EXCEPT !.k = @ + 1, !.view = o.store, !.ids = @ \cup {newId},
                                   !.res = RetList(Append(@.rows, o.res.row))]
               /\ store' = CommittedAfterInsert(store, o)
               /\ used' = used \cup {newId}
    /\ UNCHANGED <<now, last, procs, prismaNull, app, deploy, wait, db, seen>>

\* Every insert went through: COMMIT makes the rows visible at once.
CreateMultipleCommit ==
    /\ tx.pc = "open" /\ tx.k > Len(tx.batch)
    /\ store' = [i \in DOMAIN store \cup DOMAIN tx.view |->
                    IF i \in DOMAIN tx.view THEN tx.view[i] ELSE store[i]]
    /\ tx' = [tx EXCEPT !.pc = "done"]
    /\ UNCHANGED <<used, now, last, procs, prismaNull, app, deploy, wait, db, seen>>

\* The caller has the array of records, or the error.
CreateMultipleReturn ==
    /\ tx.pc = "done"
    /\ tx' = NoTx
    /\ seen' = NoRead
    /\ UNCHANGED <<store, used, now, last, procs, prismaNull, app, deploy, wait, db>>

\* Another request reads the table: count(), and exists(id) for every id.
ReadTable ==
    /\ seen' = [count |-> ClientsRepository_count(store),
                ids |-> {i \in TxIds : ClientsRepository_exists(store, i).res.b},
                during |-> tx.pc = "open" /\ tx.ids # {}]
    /\ UNCHANGED <<store, used, now, last, procs, prismaNull, app, deploy, wait, db, tx>>

TickTx ==
    /\ tx.pc = "open"
    /\ now < MaxTime
    /\ now' = now + 1
    /\ UNCHANGED <<store, used, last, procs, prismaNull, app, deploy, wait, db, tx, seen>>

InitTx ==
    /\ store = EmptyStore
    /\ used = {}
    /\ now = 0
    /\ last = NoCall
    /\ procs = <<>>
    /\ prismaNull \in {"rejected", "jsonNull"}
    /\ db = NotStarted
    /\ app = NotProbed
    /\ deploy = NoDeploy
    /\ wait = NoWait
    /\ tx = NoTx
    /\ seen = NoRead

NextTx ==
    \/ \E batch \in Batches : CreateMultipleBegin(batch)
    \/ CreateMultipleInsert
    \/ CreateMultipleCommit
    \/ CreateMultipleReturn
    \/ ReadTable
    \/ TickTx

SpecTx == InitTx /\ [][NextTx]_vars

-----------------------------------------------------------------------------
(* Claims about createMultiple, checked under SpecTx *)

\* C5: createMultiple is all-or-nothing.  While the batch runs none of its rows
\* is in the committed table; after a failed insert count() is what it was
\* before the call, none of the batch's rows exists and the caller has the
\* failing insert's error; after success every row of the batch exists; and no
\* reader has seen some of the batch's rows without seeing all of them.
C5_CreateMultipleAtomic ==
    /\ tx.pc = "open" =>
          /\ tx.ids \cap DOMAIN store = {}
          /\ ClientsRepository_count(store) = tx.countBefore
    /\ (tx.pc = "done" /\ tx.res.t = "throw") =>
          /\ ClientsRepository_count(store) = tx.countBefore
          /\ tx.ids \cap DOMAIN store = {}
          /\ tx.res = PrismaCreate(EmptyStore, tx.batch[tx.k], "t1", 0).res
    /\ (tx.pc = "done" /\ tx.res.t = "list") =>
          /\ tx.ids \subseteq DOMAIN store
          /\ Cardinality(tx.ids) = Len(tx.batch)
          /\ ClientsRepository_count(store) = tx.countBefore + Len(tx.batch)
          /\ Len(tx.res.rows) = Len(tx.batch)
          /\ \A k \in 1..Len(tx.batch) :
                /\ tx.res.rows[k].name = tx.batch[k].name
                /\ store[tx.res.rows[k].id].name = tx.batch[k].name
    /\ seen.ids \cap tx.ids # {} =>
          tx.pc = "done" /\ tx.res.t = "list" /\ tx.ids \subseteq seen.ids
    /\ seen.during => seen.count = tx.countBefore

\* C5 witness: on a table that already holds rows, a batch failed at its third
\* insert, after two inserts had gone through, and a reader read the table
\* while those inserts were pending.
C5_Witness ==
    /\ tx.pc = "done" /\ tx.res.t = "throw"
    /\ tx.k = 3 /\ Cardinality(tx.ids) = 2
    /\ tx.countBefore >= 1
    /\ seen.during

-----------------------------------------------------------------------------
(* Claims about the service, checked under Spec *)

Done(p, ops) == procs[p].pc = "done" /\ procs[p].op \in ops

\* C1: in every interleaving with a concurrent delete, a finished update has
\* returned the record or failed with NotFound naming the id, never null.
C1_UpdateRecordOrNotFound ==
    \A p \in Procs : Done(p, {"update"}) =>
        \/ procs[p].res.t = "record" /\ procs[p].res.row.id = procs[p].id
        \/ procs[p].res = Throw(NotFoundException(procs[p].id))

\* What holds of C1 whatever the client does with a null metadata: a finished
\* update never has null as its result. A null metadata the client rejects
\* ends the write in that rejection, row or no row. Otherwise a row absent at
\* the pre-check or gone at the write gives NotFound naming the id, and a row
\* present at the write gives the record.
UpdateRejected(p) ==
    /\ procs[p].checked = "found"
    /\ procs[p].data.metadata.t = "null"
    /\ prismaNull = "rejected"

UpdateOutcomes ==
    \A p \in Procs : Done(p, {"update"}) =>
        /\ procs[p].res.t \in {"record", "throw"}
        /\ procs[p].checked = "absent" <=> procs[p].wrote = "-"
        /\ UpdateRejected(p) => procs[p].res = Throw(ValidationError)
        /\ ~UpdateRejected(p) =>
              IF procs[p].checked = "absent" \/ procs[p].wrote = "miss"
              THEN procs[p].res = Throw(NotFoundException(procs[p].id))
              ELSE procs[p].res.t = "record" /\ procs[p].res.row.id = procs[p].id

\* C2: delete completes normally exactly when its repository delete removed a
\* row; absent at the pre-check, or gone before the delete, it fails with NotFound.
C2_DeleteOkOnlyIfRemoved ==
    \A p \in Procs : Done(p, {"delete"}) =>
        /\ procs[p].res = RetVoid <=> procs[p].wrote = "hit"
        /\ (procs[p].checked = "absent" \/ procs[p].wrote = "miss") =>
                procs[p].res = Throw(NotFoundException(procs[p].id))
        /\ procs[p].res.t \in {"void", "throw"}

\* C2 witness: a delete whose row was there at the pre-check and gone at the
\* delete, next to a delete that removed it.
C2_Witness ==
    \E p, q \in Procs :
        /\ Done(p, {"delete"}) /\ procs[p].checked = "found" /\ procs[p].wrote = "miss"
        /\ Done(q, {"delete"}) /\ procs[q].wrote = "hit" /\ procs[q].id = procs[p].id

\* C3: findById and findByIdRaw return the row their query matched, and fail
\* with NotFound naming the id when it matched none; they never return null.
C3_FindByIdRecordOrNotFound ==
    \A p \in Procs : Done(p, {"findById", "findByIdRaw"}) =>
        IF procs[p].snap = <<>>
        THEN procs[p].res = Throw(NotFoundException(procs[p].id))
        ELSE /\ procs[p].res = Ret(AsClient(procs[p].snap[1]))
             /\ procs[p].res.row.id = procs[p].id

\* C3 witness: one lookup found its row while a raw lookup of another id failed.
C3_Witness ==
    \E p, q \in Procs :
        /\ Done(p, {"findById"}) /\ procs[p].res.t = "record"
        /\ Done(q, {"findByIdRaw"}) /\ procs[q].res.t = "throw"

-----------------------------------------------------------------------------
(* Claims about the repository, checked under SpecRepo *)

\* The call recorded in `last` is an update of a row that was there.
UpdatedExisting == last.op = "update" /\ last.id \in DOMAIN last.pre

\* C4: for an id with no row, findById returns absent, update returns absent
\* and delete returns false, in both styles; none of them throws.
C4_AbsentIdNeverThrows ==
    (last.op \in {"findById", "update", "delete"} /\ last.id \notin DOMAIN last.pre) =>
        /\ last.res.t # "throw"
        /\ last.op = "delete" => last.res = RetBool(FALSE)
        /\ last.op # "delete" => last.res = RetNull

\* C6: a successful update leaves every omitted field (name, metadata) at its
\* prior value, never changes id or created_at, and touches no other row.
C6_PartialUpdateFrame ==
    (UpdatedExisting /\ last.res.t = "record") =>
        LET old == last.pre[last.id]
            new == store[last.id]
        IN /\ last.data.name.t = "undefined" =>
                new.name = old.name /\ last.res.row.name = old.name
           /\ last.data.metadata.t = "undefined" =>
                new.metadata = old.metadata /\ last.res.row.metadata = AsClient(old).metadata
           /\ new.id = old.id /\ last.res.row.id = old.id
           /\ new.created_at = old.created_at /\ last.res.row.created_at = old.created_at
           /\ \A i \in DOMAIN last.pre \ {last.id} : i \in DOMAIN store /\ store[i] = last.pre[i]
           /\ DOMAIN store = DOMAIN last.pre

\* C6 witness: a name-only update of a row holding a metadata document went
\* through at a later time than the row's last write.
C6_Witness ==
    /\ UpdatedExisting /\ last.res.t = "record"
    /\ last.data.name.t = "string" /\ last.data.metadata.t = "undefined"
    /\ last.pre[last.id].metadata.t = "object"
    /\ store[last.id].name # last.pre[last.id].name
    /\ store[last.id].updated_at > last.pre[last.id].updated_at

\* C7: after a successful update every supplied field has exactly the supplied
\* value in the returned and in the stored record.
C7_SuppliedFieldsApplied ==
    (UpdatedExisting /\ last.res.t = "record") =>
        LET new == AsClient(store[last.id])
        IN /\ last.data.name.t = "string" =>
                new.name = last.data.name /\ last.res.row.name = last.data.name
           /\ last.data.metadata.t # "undefined" =>
                new.metadata = last.data.metadata /\ last.res.row.metadata = last.data.metadata

\* C8: update(id, {metadata: null}) on an existing row sets metadata to null and
\* leaves name unchanged; with metadata omitted, metadata keeps its prior value.
C8_NullMetadataClears ==
    UpdatedExisting =>
        LET old == AsClient(last.pre[last.id])
        IN /\ (last.data.metadata.t = "null" /\ last.data.name.t = "undefined") =>
                /\ last.res.t = "record"
                /\ last.res.row.metadata = Null /\ last.res.row.name = old.name
                /\ AsClient(store[last.id]).metadata = Null
                /\ store[last.id].name = old.name
           /\ (last.data.metadata.t = "undefined" /\ last.res.t = "record") =>
                /\ last.res.row.metadata = old.metadata
                /\ AsClient(store[last.id]).metadata = old.metadata

\* C9: in both styles an update that supplies no field writes nothing (the
\* table, updated_at included, is as before) and returns what findById returns.
C9_EmptyUpdateIsRead ==
    (last.op = "update" /\ last.data.name.t = "undefined" /\ last.data.metadata.t = "undefined") =>
        /\ store = last.pre
        /\ last.res = FindByIdOf(last.style, last.pre, last.id).res

\* C9 witness: an empty update of an existing row, made after the row's last
\* write, so that a refreshed updated_at would show.
C9_Witness ==
    /\ UpdatedExisting
    /\ last.data.name.t = "undefined" /\ last.data.metadata.t = "undefined"
    /\ last.at > last.pre[last.id].updated_at
    /\ last.res.t = "record"

\* C10: on the same table and inputs, the Prisma Client method and the raw SQL
\* method of a pair return the same result and leave the same table.
C10_StylesAgree ==
    last # NoCall => (last.res = last.alt.res /\ store = last.alt.store)

\* The record a caller expects back for the input `data`: the name as given,
\* the metadata as given, or null when none was given.
ExpectedMetadata(data) == IF data.metadata.t = "undefined" THEN Null ELSE data.metadata

\* C11: round trip.  After a create that succeeded, in either style, findById
\* and findByIdRaw of the returned id give the returned record; its name is the
\* input name, its metadata the input metadata (null when none was given), and
\* its created_at equals its updated_at.
C11_CreateRoundTrip ==
    (last.op = "create" /\ last.res.t = "record") =>
        \A read \in Styles :
            LET found == FindByIdOf(read, store, last.res.row.id).res
            IN /\ found.t = "record"
               /\ found = last.res
               /\ found.row.name = last.data.name
               /\ found.row.metadata = ExpectedMetadata(last.data)
               /\ found.row.created_at = found.row.updated_at
               /\ found.row.created_at = last.at

\* C11 witness: a raw create carrying a metadata document went through at a
\* later time than the creation of a row already in the table.
C11_Witness ==
    /\ last.op = "create" /\ last.style = "raw" /\ last.res.t = "record"
    /\ last.data.metadata = Obj({<<"x", 1>>})
    /\ \E i \in DOMAIN last.pre : last.pre[i].created_at < last.at

\* The ids of rows that were created and have been deleted since.
Deleted == used \ DOMAIN store

\* C12: delete is a hard delete, idempotent in effect.  In both styles the
\* delete of an existing row returns true and removes that row only; from then
\* on the row stays gone, findById of its id returns absent, and another delete
\* of it returns false, throws nothing and leaves the table as it is.
C12_DeleteIdempotent ==
    /\ (last.op = "delete" /\ last.id \in DOMAIN last.pre) =>
          /\ last.res = RetBool(TRUE)
          /\ store = StoreRemove(last.pre, last.id)
          /\ last.id \in Deleted
    /\ (last.op = "delete" /\ last.id \notin DOMAIN last.pre) =>
          /\ last.res = RetBool(FALSE)
          /\ store = last.pre
    /\ \A id \in Deleted : \A style \in Styles :
          /\ FindByIdOf(style, store, id).res = RetNull
          /\ DeleteOf(style, store, id) = Out(store, RetBool(FALSE))

\* C12, the part about every later read: a deleted row never comes back.
C12_DeletedStaysDeleted == [][Deleted \subseteq Deleted']_vars

\* C12 witness: a second raw delete of a row that a delete had removed, with
\* another row still in the table.
C12_Witness ==
    /\ last.op = "delete" /\ last.style = "raw"
    /\ last.id \in Deleted /\ last.id \notin DOMAIN last.pre
    /\ last.res = RetBool(FALSE)
    /\ DOMAIN store # {}

WritesAField ==
    IF last.style = "prisma" THEN UpdateData(last.data) # NoData
    ELSE Len(RawUpdates(last.data)) > 0

\* C14: a successful update that writes at least one field leaves the row, and
\* returns it, with updated_at at the time of that write, which is not before
\* the row's previous updated_at.
C14_UpdateRefreshesUpdatedAt ==
    (UpdatedExisting /\ last.res.t = "record" /\ WritesAField) =>
        /\ store[last.id].updated_at = last.at
        /\ last.res.row.updated_at = last.at
        /\ last.pre[last.id].updated_at <= store[last.id].updated_at

\* C14, over whole behaviours: the updated_at of a row never decreases.
C14_UpdatedAtNeverDecreases ==
    [][\A i \in DOMAIN store \cap DOMAIN store' :
          store[i].updated_at <= store'[i].updated_at]_vars

\* C14 witness: a raw update of the metadata alone, made at a later time than
\* the row's previous write.
C14_Witness ==
    /\ UpdatedExisting /\ last.style = "raw" /\ last.res.t = "record"
    /\ last.data.name.t = "undefined" /\ last.data.metadata.t = "object"
    /\ last.at > last.pre[last.id].updated_at

\* The fields of the DTO that are supplied (not undefined).
Supplied(data) ==
    {c \in {"name", "metadata"} : data[c].t # "undefined"}

\* The parameter updateRaw means column `c` to take.
ParamFor(data, c) == IF c = "name" THEN data.name ELSE MetadataParam(data.metadata)

\* C15: when at least one field is supplied, the SET list of updateRaw has one
\* assignment per supplied field and none for an omitted one; the assignments
\* use the placeholders $1..$k in order and $k is bound to the value of its
\* field; the id is the last parameter, bound by the WHERE placeholder and by
\* no assignment; and the statement is the same for all DTOs that supply the
\* same fields, so no supplied value is part of its text.  The updated_at
\* refresh that follows the list shows in the row the statement returns.
C15_RawUpdateComposition ==
    (last.op = "update" /\ last.style = "raw" /\ Supplied(last.data) # {}) =>
        LET updates == RawUpdates(last.data)
            params == RawParams(last.id, last.data)
            where == RawWherePlaceholder(last.data)
        IN /\ Len(updates) = Cardinality(Supplied(last.data))
           /\ {updates[i].col : i \in DOMAIN updates} = Supplied(last.data)
           /\ \A i \in DOMAIN updates :
                 /\ updates[i].ph = i
                 /\ params[updates[i].ph] = ParamFor(last.data, updates[i].col)
           /\ Len(params) = Len(updates) + 1
           /\ where = Len(params)
           /\ params[where] = Str(last.id)
           /\ \A d \in UpdateDtos : Supplied(d) = Supplied(last.data) =>
                 /\ RawUpdates(d) = updates
                 /\ RawWherePlaceholder(d) = where
           /\ last.res.t = "record" =>
                 /\ last.res.row.id = last.id
                 /\ last.res.row.updated_at = last.at
                 /\ \A c \in Supplied(last.data) :
                       last.res.row[c] = IF c = "name" THEN last.data.name
                                         ELSE CastJsonb(ParamFor(last.data, c))
           /\ \A i \in DOMAIN last.pre \ {last.id} :
                 i \in DOMAIN store /\ store[i] = last.pre[i]

\* C15 witness: a raw update of the metadata alone, to null, of one of two
\* rows: the metadata takes $1 and the id $2.
C15_Witness ==
    /\ UpdatedExisting /\ last.style = "raw" /\ last.res.t = "record"
    /\ Supplied(last.data) = {"metadata"} /\ last.data.metadata = Null
    /\ Cardinality(DOMAIN last.pre) = 2
    /\ RawParams(last.id, last.data) = <<Null, Str(last.id)>>

-----------------------------------------------------------------------------
(* Claims about persistence faults, checked under SpecFault *)

\* C16: a fault other than P2025 raised during a repository update or delete
\* comes out of the repository and out of the service as the same error: the
\* result is not absent, false, NotFound or a normal return.  The query is not
\* issued again: the failed write left the table as it was.  The same holds
\* for whatever else the repository throws.
C16_FaultPassesThrough ==
    \A p \in Procs : Done(p, {"update", "delete"}) =>
        /\ (procs[p].fault # NoFault /\ procs[p].checked = "found") =>
              /\ procs[p].repo = Throw(procs[p].fault)
              /\ procs[p].res = Throw(procs[p].fault)
              /\ procs[p].wrote \in {"kept", "miss"}
        /\ procs[p].repo.t = "throw" =>
              /\ procs[p].repo.err.code # "P2025"
              /\ procs[p].res = procs[p].repo

\* C16 witness: an update hit by a constraint violation on a row that is
\* there, next to a delete of the same row that lost the connection.
C16_Witness ==
    \E p, q \in Procs :
        /\ Done(p, {"update"}) /\ procs[p].fault.code = "P2002" /\ procs[p].snap # <<>>
        /\ Done(q, {"delete"}) /\ procs[q].fault.code = "P1001"
        /\ procs[q].id = procs[p].id /\ procs[q].checked = "found"

-----------------------------------------------------------------------------
(* More claims about the repository, checked under SpecRepo *)

\* C17: findAll and findAllRaw return a sequence that holds every row of the
\* table once and nothing else, newest created_at first; on an empty table the
\* sequence is empty; they do not fail and do not change the table.
C17_FindAllNewestFirst ==
    last.op = "findAll" =>
        /\ last.res.t = "list"
        /\ store = last.pre
        /\ Len(last.res.rows) = Cardinality(DOMAIN store)
        /\ {last.res.rows[i] : i \in DOMAIN last.res.rows} =
              {AsClient(store[id]) : id \in DOMAIN store}
        /\ \A i, j \in DOMAIN last.res.rows :
              i < j => last.res.rows[i].created_at >= last.res.rows[j].created_at
        /\ store = EmptyStore => last.res.rows = <<>>

\* C17 witness: findAllRaw on a table of two rows created at different times,
\* one of them holding the jsonb value null or no metadata.
C17_Witness ==
    /\ last.op = "findAll" /\ last.style = "raw"
    /\ Len(last.res.rows) = 2
    /\ last.res.rows[1].created_at > last.res.rows[2].created_at
    /\ \E i \in 1..2 : last.res.rows[i].metadata = Null

\* C17 witness for the empty table: findAll after the only row was deleted.
C17_WitnessEmpty ==
    /\ last.op = "findAll" /\ last.style = "prisma"
    /\ store = EmptyStore /\ Deleted # {}
    /\ last.res = RetList(<<>>)

-----------------------------------------------------------------------------
(* Claims about PrismaService and the health probes, checked under SpecLife *)

\* The hook called last, and the client or pool calls it issued.
LatestHook == db.calls[Len(db.calls)]
IssuedByLatest == SelectSeq(db.issued, LAMBDA x : x.by = Len(db.calls))

\* C18: isHealthy of PrismaService and of DatabaseService issue one SELECT 1
\* probe per call, return true when the probe resolves and false when it
\* rejects, whatever the error; they never throw.
C18_IsHealthyNeverThrows ==
    (db.calls # <<>> /\ LatestHook \in {"isHealthy", "DatabaseService.isHealthy"}) =>
        /\ Len(IssuedByLatest) = 1
        /\ IssuedByLatest[1].q = IF LatestHook = "isHealthy" THEN "$queryRaw SELECT 1"
                                  ELSE "pool.query SELECT 1"
        /\ db.res.t = "boolean"
        /\ db.res.b <=> IssuedByLatest[1].outcome = Resolved

\* C18 witness: a probe of PrismaService failed for want of a connection after
\* a probe of DatabaseService had failed and one of PrismaService had succeeded.
C18_Witness ==
    /\ Len(db.calls) = 3
    /\ db.calls = <<"isHealthy", "DatabaseService.isHealthy", "isHealthy">>
    /\ db.issued[1].outcome = Resolved
    /\ db.issued[2].outcome = Rejected(Error("Query failed"))
    /\ db.issued[3].outcome = Rejected(Error("Client not connected to database"))
    /\ db.res = RetBool(FALSE)

\* C19: onModuleInit calls $connect once.  When it resolves the hook completes
\* normally; when it rejects the hook logs the failure with the error's message
\* and throws that same error, without another attempt.
C19_InitConnectsOnceOrRethrows ==
    (db.calls # <<>> /\ LatestHook = "onModuleInit") =>
        /\ Len(IssuedByLatest) = 1
        /\ IssuedByLatest[1].q = "$connect"
        /\ IssuedByLatest[1].outcome = Resolved =>
              /\ db.res = RetVoid
              /\ db.logged = <<[level |-> "log", arg |-> "-",
                                msg |-> "Database connection established successfully"]>>
        /\ IssuedByLatest[1].outcome # Resolved =>
              /\ db.res = Throw(IssuedByLatest[1].outcome.err)
              /\ db.logged = <<[level |-> "error", msg |-> "Database connection failed",
                                arg |-> IssuedByLatest[1].outcome.err.message]>>

\* C19 witness: a second onModuleInit timed out after a first one had connected.
C19_Witness ==
    /\ db.calls = <<"onModuleInit", "onModuleInit">>
    /\ db.issued[1].outcome = Resolved
    /\ db.res = Throw(Error("Connection timeout"))

\* The client or pool method each hook awaits.
ClientCallOf(hook) ==
    CASE hook = "onModuleInit" -> "$connect"
      [] hook = "onModuleDestroy" -> "$disconnect"
      [] hook = "isHealthy" -> "$queryRaw SELECT 1"
      [] hook = "DatabaseService.isHealthy" -> "pool.query SELECT 1"

\* How many times the hook was called, the client method issued.
TimesCalled(hook) == Cardinality({i \in DOMAIN db.calls : db.calls[i] = hook})
TimesIssued(q) == Cardinality({i \in DOMAIN db.issued : db.issued[i].q = q})

\* C20: after any sequence of lifecycle calls there are as many $connect calls
\* as onModuleInit calls and as many $disconnect calls as onModuleDestroy calls,
\* a repeated destroy included; and the client calls were issued in the order
\* of the hooks, one per hook, so that in init, isHealthy, destroy the connect
\* comes before the probe and the probe before the disconnect.
C20_LifecycleCounts ==
    /\ TimesIssued("$connect") = TimesCalled("onModuleInit")
    /\ TimesIssued("$disconnect") = TimesCalled("onModuleDestroy")
    /\ Len(db.issued) = Len(db.calls)
    /\ \A i \in DOMAIN db.issued :
          /\ db.issued[i].by = i
          /\ db.issued[i].q = ClientCallOf(db.calls[i])

\* C20 witness: init, isHealthy, destroy and a second destroy.
C20_Witness ==
    /\ db.calls = <<"onModuleInit", "isHealthy", "onModuleDestroy", "onModuleDestroy">>
    /\ \A i \in 1..4 : db.issued[i].outcome = Resolved
    /\ ~db.connected

-----------------------------------------------------------------------------
(* Claims about AppService, checked under SpecApp *)

Probed == app.health.status # "none"

\* C21: for an uptime of d days, h hours, m minutes, s seconds and some
\* milliseconds (h < 24, m < 60, s < 60), formatUptime gives 'Dd Hh Mm' when
\* d > 0, 'Hh Mm Ss' when d = 0 and h > 0, 'Mm Ss' when h = 0 and m > 0 and 'Ss'
\* otherwise; one day gives '1d 0h 0m' and 0 gives '0s'.
C21_FormatUptime ==
    Probed =>
        LET e == app.elapsed
            formatted == app.health.uptime.formatted
        IN /\ app.health.uptime.milliseconds = Millis(e)
           /\ formatted =
                 IF e.d > 0 THEN <<Part(e.d, "d"), Part(e.h, "h"), Part(e.m, "m")>>
                 ELSE IF e.h > 0 THEN <<Part(e.h, "h"), Part(e.m, "m"), Part(e.s, "s")>>
                 ELSE IF e.m > 0 THEN <<Part(e.m, "m"), Part(e.s, "s")>>
                 ELSE <<Part(e.s, "s")>>
           /\ Millis(e) = 86400000 => formatted = <<Part(1, "d"), Part(0, "h"), Part(0, "m")>>
           /\ Millis(e) = 0 => formatted = <<Part(0, "s")>>

\* C21 witness: the health of a service that has been up for one day and 23
\* hours, 59 seconds and 999 milliseconds, asked after an earlier probe.
C21_Witness ==
    /\ Probed
    /\ app.elapsed = [d |-> 1, h |-> 23, m |-> 0, s |-> 59, f |-> 999]
    /\ app.health.uptime.formatted = <<Part(1, "d"), Part(23, "h"), Part(0, "m")>>
    /\ app.startTime > 0

\* C22: health() returns status 'ok', the message 'Service is healthy and
\* running....!', the timestamp, service, uptime, system and memory sections,
\* and uptime.milliseconds >= 0.
C22_HealthObject ==
    Probed =>
        /\ app.health.status = "ok"
        /\ app.health.message = "Service is healthy and running....!"
        /\ {"timestamp", "service", "uptime", "system", "memory"} \subseteq DOMAIN app.health
        /\ app.health.uptime.milliseconds >= 0

\* What holds of C22: everything but the message, which is the shorter
\* 'Service is healthy and running'.
HealthObjectButMessage ==
    Probed =>
        /\ app.health.status = "ok"
        /\ app.health.message = "Service is healthy and running"
        /\ DOMAIN app.health =
              {"status", "message", "timestamp", "service", "uptime", "system", "memory"}
        /\ app.health.uptime.milliseconds >= 0
        /\ app.health.uptime.seconds * 1000 <= app.health.uptime.milliseconds
        /\ app.health.service.name = "backend-gateway-service"

-----------------------------------------------------------------------------
(* Claims about the deployment script, checked under SpecDeploy *)

\* The run has used up its attempts without a healthy answer.
HealthCheckFailed ==
    ~deploy.success /\ deploy.probes = HealthAttempts /\ deploy.pc \in {"afterLoop", "rmFailed", "exited"}

\* C23: if the new container passes no health check in 20 attempts, the
\* temporary container is removed and the script exits with a non-zero status;
\* and as long as no health check has passed, the production container is what
\* it was when the script started: never stopped, never removed.
C23_FailedDeployKeepsOld ==
    /\ ~deploy.success => deploy.prod = deploy.old
    /\ (HealthCheckFailed /\ deploy.pc = "exited") =>
          /\ deploy.temp = Absent
          /\ deploy.status # 0
          /\ deploy.prod = deploy.old
    /\ deploy.probes <= HealthAttempts
    /\ (deploy.pc \in {"afterLoop", "rmFailed"} /\ ~deploy.success) =>
          deploy.probes = HealthAttempts

\* C23 witness: the script has exited after twenty failed attempts, with the
\* old version running in production.
C23_Witness ==
    /\ HealthCheckFailed /\ deploy.pc = "exited"
    /\ deploy.i = HealthAttempts
    /\ deploy.prod = Container("running", PORT, "old")

\* Some container of the application is running and bound to port 3000.
LiveOnProductionPort == deploy.prod.state = "running" /\ deploy.prod.port = PORT

\* C24: in a run that started with the application in production and whose new
\* container passes the health check, at every step up to 'Deployment
\* complete' a container is running on production port 3000.
C24_ZeroDowntime ==
    (deploy.old.state = "running" /\ deploy.success) => LiveOnProductionPort

\* What holds of C24: production is live until the old container is stopped
\* and again once the script has run the new one; in between it is not.
DowntimeWindow ==
    deploy.old.state = "running" =>
        (LiveOnProductionPort <=>
            (deploy.pc \notin {"rmOld", "stopTemp", "rename", "rmRenamed", "runProd"}))

-----------------------------------------------------------------------------
(* Claims about the Jenkins wait loop, checked under SpecWaitFair *)

WaitEnded == wait.pc \in {"succeeded", "failed"}

\* Success only at a probe that returned 200, which then is the last probe; a
\* failure only after MAX_WAIT / INTERVAL probes, none of them 200; never
\* more probes than that.
WaitOutcome ==
    /\ wait.probes <= MAX_WAIT \div INTERVAL
    /\ wait.pc = "succeeded" <=> wait.status = "200"
    /\ wait.pc = "failed" => (wait.probes = MAX_WAIT \div INTERVAL /\ wait.status # "200")
    /\ wait.waited = INTERVAL * (wait.probes - (IF wait.pc = "sleep" \/ wait.pc = "succeeded" THEN 1 ELSE 0))

\* C25: the wait loop always terminates; it succeeds at the first probe that
\* returns 200 and never without one, and fails after at most
\* MAX_WAIT / INTERVAL = 24 probes when none returns 200.
C25_WaitLoopTerminates == [](WaitOutcome /\ 24 = MAX_WAIT \div INTERVAL) /\ <>WaitEnded

\* C25 witnesses: the pipeline failed after 24 probes; the loop ended at a
\* 200 after earlier probes that were not.
C25_Witness == wait.pc = "failed" /\ wait.probes = 24

C25_WitnessUp == wait.pc = "succeeded" /\ wait.probes = 3

-----------------------------------------------------------------------------
(* Claims about the service's check-then-write calls, checked under Spec *)

\* C26: when the pre-check of ClientsService.update or delete finds no row, the
\* call fails with NotFound there and then: it never reaches the repository's
\* update or delete, and the step leaves the table as it was.
C26_AbsentAtCheckNoWrite ==
    [][\A p \in Procs :
         (procs'[p].op \in {"update", "delete"} /\ procs'[p].checked = "absent") =>
            /\ procs'[p].pc = "done"
            /\ procs'[p].wrote = "-"
            /\ procs'[p].res = Throw(NotFoundException(procs'[p].id))
            /\ procs'[p] # procs[p] =>
                  (store' = store /\ procs'[p].id \notin DOMAIN store)]_vars

\* C26 witness: an update and a delete both ended at their pre-check, for an
\* id that is not in a table that holds another row.
C26_Witness ==
    /\ Done("p1", {"update"}) /\ procs["p1"].checked = "absent"
    /\ Done("p2", {"delete"}) /\ procs["p2"].checked = "absent"
    /\ procs["p1"].id \notin DOMAIN store
    /\ DOMAIN store # {}

\* Both calls are deletes of one id whose row was there at both pre-checks.
ConcurrentDeletes(p, q) ==
    /\ p # q
    /\ Done(p, {"delete"}) /\ Done(q, {"delete"})
    /\ procs[p].id = procs[q].id
    /\ procs[p].checked = "found" /\ procs[q].checked = "found"

\* C27: of two concurrent deletes of one existing id, exactly one completes
\* and the other fails with NotFound; the row is removed once, by the one that
\* completes, and no other error occurs.
C27_ConcurrentDeletes ==
    \A p, q \in Procs : ConcurrentDeletes(p, q) =>
        /\ {procs[p].res, procs[q].res} = {RetVoid, Throw(NotFoundException(procs[p].id))}
        /\ {procs[p].wrote, procs[q].wrote} = {"hit", "miss"}
        /\ procs[p].res = RetVoid <=> procs[p].wrote = "hit"
        /\ procs[p].id \notin DOMAIN store

\* C27 witness: both pre-checks saw the row, p2 removed it, p1 came second.
C27_Witness ==
    /\ ConcurrentDeletes("p1", "p2")
    /\ procs["p2"].res = RetVoid
    /\ procs["p1"].res.t = "throw"

\* The row as a client sees it once the write of call x has returned.
RowAfter(x) == IF x.wrote = "hit" THEN x.res.row ELSE AsClient(x.snap[1])

\* The write of call b came right after that of call a and is the last one:
\* no third call wrote the row in between or since.
WroteInTurn(a, b) ==
    /\ a.wrote \in {"hit", "kept"} /\ b.wrote \in {"hit", "kept"}
    /\ AsClient(b.snap[1]) = RowAfter(a)
    /\ b.id \in DOMAIN store
    /\ AsClient(store[b.id]) = RowAfter(b)

\* p updates only the name, q only the metadata, of one row that both
\* pre-checks found, and only the two of them have written it.
DisjointUpdates(p, q) ==
    /\ Done(p, {"update"}) /\ Done(q, {"update"})
    /\ procs[p].id = procs[q].id
    /\ procs[p].checked = "found" /\ procs[q].checked = "found"
    /\ procs[p].data.name.t = "string" /\ procs[p].data.metadata.t = "undefined"
    /\ procs[q].data.name.t = "undefined" /\ procs[q].data.metadata.t # "undefined"
    /\ WroteInTurn(procs[p], procs[q]) \/ WroteInTurn(procs[q], procs[p])

\* C28: two concurrent updates of one existing record, one supplying only a
\* name and the other only a metadata, both take effect in every interleaving:
\* the stored record has the new name and the new metadata.
C28_DisjointUpdatesBothApply ==
    \A p, q \in Procs : DisjointUpdates(p, q) =>
        /\ store[procs[p].id].name = procs[p].data.name
        /\ AsClient(store[procs[p].id]).metadata = procs[q].data.metadata

\* What holds of C28: when the metadata supplied is a document, neither write
\* undoes the other.
NoLostUpdate ==
    \A p, q \in Procs :
        (DisjointUpdates(p, q) /\ procs[q].data.metadata.t = "object") =>
            /\ store[procs[p].id].name = procs[p].data.name
            /\ store[procs[p].id].metadata = procs[q].data.metadata
            /\ procs[p].res.t = "record" /\ procs[q].res.t = "record"

\* Both orders of the two writes happen, each after both pre-checks.
NoLostUpdate_Witness ==
    /\ DisjointUpdates("p1", "p2") /\ procs["p2"].data.metadata.t = "object"
    /\ WroteInTurn(procs["p2"], procs["p1"])
    /\ procs["p1"].snap[1].name # procs["p1"].data.name

-----------------------------------------------------------------------------
(* Claims about existence and cardinality, checked under SpecRepo *)

\* C29: exists(id) is true exactly when findById(id) returns a record, no two
\* records returned by findAll have the same id, and count() is the number of
\* records findAll returns; count is one more after a successful create, one
\* less after a delete that returns true, and the same after any other call.
C29_ExistsAndCount ==
    /\ \A id \in Ids, style \in Styles :
          ClientsRepository_exists(store, id).res =
              RetBool(FindByIdOf(style, store, id).res.t = "record")
    /\ \A style \in Styles, ord \in Perms(Ids) :
          LET rows == FindAllOf(style, store, ord).res.rows
          IN /\ ClientsRepository_count(store) = Len(rows)
             /\ \A i, j \in DOMAIN rows : rows[i].id = rows[j].id => i = j
    /\ last.op = "exists" =>
          (last.res = RetBool(FindByIdOf("prisma", last.pre, last.id).res.t = "record")
           /\ store = last.pre)
    /\ last.op = "count" =>
          (last.res = RetInt(Len(FindAllOf("prisma", last.pre, <<"u1", "u2">>).res.rows))
           /\ store = last.pre)
    /\ last # NoCall =>
          ClientsRepository_count(store) =
              ClientsRepository_count(last.pre)
                + (IF last.op = "create" /\ last.res.t = "record" THEN 1 ELSE 0)
                - (IF last.op = "delete" /\ last.res = RetBool(TRUE) THEN 1 ELSE 0)

\* C29 witnesses: count() answers 2 for a table of two rows; exists answers
\* false for a deleted id while another row is there; a delete that returned
\* true left one row of two.
C29_Witness ==
    /\ last.op = "count" /\ last.res = RetInt(2)

C29_WitnessExists ==
    /\ last.op = "exists" /\ last.res = RetBool(FALSE)
    /\ last.id \in Deleted /\ DOMAIN store # {}

C29_WitnessDelete ==
    /\ last.op = "delete" /\ last.res = RetBool(TRUE)
    /\ ClientsRepository_count(last.pre) = 2 /\ ClientsRepository_count(store) = 1

\* C30: in both styles, update and delete of an id that has no row leave the
\* table as it was: no row is created, changed or removed, updated_at
\* included, and count() is the same before and after.
C30_AbsentIdLeavesStore ==
    (last.op \in {"update", "delete"} /\ last.id \notin DOMAIN last.pre) =>
        /\ store = last.pre
        /\ \A id \in DOMAIN last.pre : id \in DOMAIN store /\ store[id] = last.pre[id]
        /\ last.id \notin DOMAIN store
        /\ ClientsRepository_count(store) = ClientsRepository_count(last.pre)

\* C30 witnesses: an update with a name, and a delete, of an id without a row,
\* later than the last write of the one row in the table.
C30_Witness ==
    /\ last.op = "update" /\ last.style = "prisma" /\ last.data.name.t = "string"
    /\ last.data.name # Str("")
    /\ last.id \notin DOMAIN last.pre
    /\ \E id \in DOMAIN store : store[id].updated_at < last.at

C30_WitnessDeleteRaw ==
    /\ last.op = "delete" /\ last.style = "raw"
    /\ last.id \notin DOMAIN last.pre /\ last.id \notin used
    /\ DOMAIN store # {}

====
